---------------------------- MODULE Spec2Model ----------------------------
(***************************************************************************)
(* Verification model of the "normaliza" subsystem of qufafeat:            *)
(* RowSet / ColDepSet dependency discovery, the ColDepNode / ColDepLink    *)
(* dependency graph with its squash, collapse, single-parent and           *)
(* subsumption passes, ColDepTree, and the sampling driver; and of the     *)
(* mkfeat front end (ColumnSpec.validate, QufaCsv.load, FeatureExtractor,  *)
(* the progress file of IPC) and the aggregation primitive                 *)
(* MaxConsecutiveTrue.                                                     *)
(*                                                                         *)
(* Python sets iterate in an order the program does not control: every     *)
(* loop over a set is modelled as a choice over all orders.  An exception  *)
(* is a value of the field err; once it is set the operation in progress   *)
(* is abandoned with the mutations made so far kept, as in Python.         *)
(***************************************************************************)
EXTENDS Integers, Sequences, FiniteSets, TLC

(***************************************************************************)
(* Bounds of the model.                                                    *)
(***************************************************************************)
MaxLhsLen == 2      \* largest determinant of a dependency handed to build or add
MaxDeps == 3        \* largest dependency set given to build

\* the column names of the table (the key column is dropped before analysis)
Cols == {"zip", "city", "state", "price"}
CnSet == SUBSET Cols                 \* a column-subset (frozenset of names)
Node == CnSet                        \* a node is named by the subset it was constructed with
VRoot == {}                          \* ColDepNode(None): the virtual root
Link == [lhs : Node, rhs : Node, cnset_lhs : CnSet, cnset_rhs : CnSet]

\* ColDep objects a ColDepSet can hold: determinant -> one dependent column
ColDep == { d \in [lhs : CnSet \ {{}}, rhs : CnSet] :
              /\ \E c \in Cols : d.rhs = {c}
              /\ d.lhs \cap d.rhs = {}
              /\ Cardinality(d.lhs) <= MaxLhsLen }

\* interpreter recursion limit, scaled: a walk longer than the number of
\* nodes has revisited a node and recurses until the stack overflows
RecursionLimit == Cardinality(Node) + 1

(***************************************************************************)
(* ColDepLink: equality and hash use the two column-subsets only.          *)
(***************************************************************************)
LinkEq(l, m) == l.cnset_lhs = m.cnset_lhs /\ l.cnset_rhs = m.cnset_rhs

\* Python set of links: membership, add (keeps the element already there)
\* and remove, all by LinkEq
HasLink(S, l) == \E m \in S : LinkEq(m, l)
AddLink(S, l) == IF HasLink(S, l) THEN S ELSE S \cup {l}
DelLink(S, l) == { m \in S : ~LinkEq(m, l) }

ColDepLink(lhs, rhs, cnset_lhs, cnset_rhs) ==
    [lhs |-> lhs, rhs |-> rhs, cnset_lhs |-> cnset_lhs, cnset_rhs |-> cnset_rhs]

(***************************************************************************)
(* The object graph: every ColDepNode constructed so far with its fields. *)
(* invalid holds the nodes whose _cnsets is None.                          *)
(***************************************************************************)
EmptyGraph ==
    [made         |-> {VRoot},
     cnsets       |-> [n \in Node |-> {}],
     links_child  |-> [n \in Node |-> {}],
     links_parent |-> [n \in Node |-> {}],
     invalid      |-> {},
     root         |-> VRoot,
     err          |-> "none"]

Raise(T, e) == IF T.err = "none" THEN [T EXCEPT !.err = e] ELSE T
Ok(T) == T.err = "none"

\* ColDepNode.__init__
NewNode(T, cnset) ==
    IF cnset \in T.made THEN Raise(T, "NodeNameReused")
    ELSE [T EXCEPT !.made = @ \cup {cnset}, !.cnsets[cnset] = {cnset}]

is_invalid(T, n) == n \in T.invalid

link_is_invalid(T, l) ==
    \/ is_invalid(T, l.lhs) \/ is_invalid(T, l.rhs)
    \/ l.lhs = l.rhs
    \/ (l.cnset_lhs # {} /\ l.cnset_lhs = l.cnset_rhs)

\* is_vroot: "if self._cnsets" is false for the empty set and for None
is_vroot(T, n) == is_invalid(T, n) \/ T.cnsets[n] = {}

\* is_cnset of a valid node
is_cnset(T, n, cnset) == cnset \in T.cnsets[n]


(***************************************************************************)
(* ColDepNode link operations (coldepnode.py 37-70).                       *)
(***************************************************************************)
remove_link_parent(T, n, link, force) ==
    IF ~Ok(T) THEN T
    ELSE IF HasLink(T.links_parent[n], link)
         THEN [T EXCEPT !.links_parent[n] = DelLink(@, link)]
         ELSE IF force THEN T ELSE Raise(T, "KeyError")

\* variant: the child link is left in place
remove_link_child_kept(T, n, link, force) == T

remove_link_child(T, n, link, force) ==
    IF ~Ok(T) THEN T
    ELSE IF HasLink(T.links_child[n], link)
         THEN [T EXCEPT !.links_child[n] = DelLink(@, link)]
         ELSE IF force THEN T ELSE Raise(T, "KeyError")

\* variant: the link is taken out on the side of the node only
remove_link_child_only(T, n, link, force) == remove_link_child(T, n, link, force)

remove_link(T, n, link, force) ==
    remove_link_parent(remove_link_child(T, n, link, force), link.rhs, link, force)

\* a lone incoming link from the virtual root (empty cnset_lhs) is dropped
\* before the new parent link is added
add_link_parent(T, n, link) ==
    IF ~Ok(T) THEN T
    ELSE LET S  == T.links_parent[n]
             T1 == IF Cardinality(S) = 1
                   THEN LET link_parent == CHOOSE m \in S : TRUE
                        IN  IF link_parent.cnset_lhs = {}
                            THEN remove_link(T, link_parent.lhs, link_parent, FALSE)
                            ELSE T
                   ELSE T
         IN  IF ~Ok(T1) THEN T1
             ELSE [T1 EXCEPT !.links_parent[n] = AddLink(@, link)]

add_link_child(T, n, link) ==
    IF ~Ok(T) THEN T
    ELSE [T EXCEPT !.links_child[n] = AddLink(@, link)]

\* variant: the link is added on the side of the source only
add_link_child_only(T, n, link) == add_link_child(T, n, link)

add_link(T, n, link) == add_link_parent(add_link_child(T, n, link), link.rhs, link)

append_link(T, n, cnset_lhs, cnset_rhs, child) ==
    add_link(T, n, ColDepLink(n, child, cnset_lhs, cnset_rhs))

\* variant: the link is added without the equal one being removed first
set_link_add_only(T, n, link) == add_link(T, n, link)

set_link(T, n, link) == add_link(remove_link(T, n, link, TRUE), n, link)

\* variant: the column-subsets are not handed over
add_cnset_dropped(T, n, from) == T

\* add_cnset with a set of column-subsets (the caller passes self._cnsets)
add_cnset(T, n, from) ==
    IF ~Ok(T) THEN T
    ELSE IF is_invalid(T, from) THEN Raise(T, "TypeError")
    ELSE IF is_invalid(T, n)
         THEN IF T.cnsets[from] = {} THEN T ELSE Raise(T, "AttributeError")
    ELSE [T EXCEPT !.cnsets[n] = @ \cup T.cnsets[from]]

\* add_cnset given one column-subset (a frozenset), lines 31-32
add_cnset_frozenset(T, n, cnset) ==
    IF ~Ok(T) THEN T
    ELSE IF is_invalid(T, n) THEN Raise(T, "AttributeError")
    ELSE [T EXCEPT !.cnsets[n] = @ \cup {cnset}]

(***************************************************************************)
(* Recursive queries.  Each returns the set of results the walk can give  *)
(* over all iteration orders: a loop that returns at the first hit gives  *)
(* any hit or fault met before the loop ends, and the negative result     *)
(* only if nothing else is met.  "RecursionError" is the overflow of the  *)
(* interpreter stack, "TypeError" the iteration over _cnsets = None.      *)
(***************************************************************************)
FirstHit(R, none) == IF R \subseteq {none} THEN {none} ELSE R \ {none}

RECURSIVE is_ancestor(_, _, _, _)
is_ancestor(T, n, ancestor, fuel) ==
    IF fuel = 0 THEN {"RecursionError"}
    ELSE FirstHit(UNION { IF l.lhs = ancestor THEN {"True"}
                          ELSE is_ancestor(T, l.lhs, ancestor, fuel - 1)
                          : l \in T.links_parent[n] }, "False")

RECURSIVE has_descendent(_, _, _, _)
has_descendent(T, n, node, fuel) ==
    IF fuel = 0 THEN {"RecursionError"}
    ELSE FirstHit(UNION { IF l.rhs = node THEN {"True"}
                          ELSE has_descendent(T, l.rhs, node, fuel - 1)
                          : l \in T.links_child[n] }, "False")

\* find: results are <<"node", n>>, <<"None", {}>> or <<fault, {}>>
NotFound == <<"None", {}>>

RECURSIVE find(_, _, _, _)
find(T, n, cnset, fuel) ==
    IF fuel = 0 THEN {<<"RecursionError", {}>>}
    ELSE IF is_invalid(T, n) THEN {<<"TypeError", {}>>}
    ELSE IF is_cnset(T, n, cnset) THEN {<<"node", n>>}
    ELSE FirstHit(UNION { find(T, l.rhs, cnset, fuel - 1) : l \in T.links_child[n] },
                  NotFound)

\* get_depth: the result, or -1 for the stack overflow
RECURSIVE get_depth(_, _, _)
get_depth(T, n, fuel) ==
    IF fuel = 0 THEN -1
    ELSE LET D == { get_depth(T, l.lhs, fuel - 1) : l \in T.links_parent[n] }
         IN  IF -1 \in D THEN -1
             ELSE LET depth == 1
                  IN  IF \E d \in D : d > depth
                      THEN CHOOSE d \in D : \A e \in D : e <= d
                      ELSE depth


(***************************************************************************)
(* collapse and squash (coldepnode.py 172-197).  Both return the set of   *)
(* graphs the call can leave.                                              *)
(***************************************************************************)
\* the loop of collapse over self._links_child, rem being what is left of it
RECURSIVE collapse_links(_, _, _, _)
collapse_links(T, self, node, rem) ==
    IF ~Ok(T) \/ rem = {} THEN {T}
    ELSE UNION { LET T1 == IF ~is_invalid(T, l.rhs) /\ node # l.rhs
                           THEN set_link(T, node,
                                         ColDepLink(node, l.rhs, l.cnset_lhs, l.cnset_rhs))
                           ELSE T
                 IN  IF Ok(T1) /\ Cardinality(T1.links_child[self]) # Cardinality(T.links_child[self])
                     THEN {Raise(T1, "RuntimeError")}    \* set changed during iteration
                     ELSE collapse_links(T1, self, node, rem \ {l})
                 : l \in rem }

collapse(T, self, node) ==
    LET T1 == add_cnset(T, node, self)
    IN  collapse_links(T1, self, node, T1.links_child[self])

RECURSIVE squash(_, _, _, _)
RECURSIVE squash_links(_, _, _, _, _, _)
RECURSIVE squash_parents(_, _, _, _)

\* the loop of squash over self._links_parent: pairs <<graph, parents>>
squash_links(T, self, node, rem, parents, fuel) ==
    IF ~Ok(T) \/ rem = {} THEN {<<T, parents>>}
    ELSE UNION {
        LET T1 == remove_link_child(T, l.lhs, l, FALSE)
            A  == IF l.lhs = node THEN {"True"} ELSE is_ancestor(T1, l.lhs, node, RecursionLimit)
        IN  IF ~Ok(T1) THEN {<<T1, parents>>}
            ELSE UNION {
                IF a = "RecursionError" THEN {<<Raise(T1, a), parents>>}
                ELSE LET T2 == IF a = "True" THEN T1
                               ELSE append_link(T1, l.lhs, l.cnset_lhs, l.cnset_rhs, node)
                         P2 == IF a = "True" THEN parents \cup {l.lhs} ELSE parents
                     IN  IF Ok(T2) /\ Cardinality(T2.links_parent[self])
                                      # Cardinality(T.links_parent[self])
                         THEN {<<Raise(T2, "RuntimeError"), P2>>}
                         ELSE squash_links(T2, self, node, rem \ {l}, P2, fuel)
                : a \in A }
        : l \in rem }

\* the loop of squash over the local set parents
squash_parents(T, node, rem, fuel) ==
    IF ~Ok(T) \/ rem = {} THEN {T}
    ELSE UNION { LET S == IF ~is_invalid(T, parent)
                          THEN squash(T, parent, node, fuel - 1)
                          ELSE {T}
                 IN  UNION { squash_parents(T1, node, rem \ {parent}, fuel) : T1 \in S }
                 : parent \in rem }

\* variant: no test of self == node
squash_unguarded(T, self, node, fuel) ==
    IF ~Ok(T) THEN {T}
    ELSE IF fuel = 0 THEN {Raise(T, "RecursionError")}
    ELSE UNION {
        UNION {
            UNION { IF Ok(T3) THEN {[T3 EXCEPT !.invalid = @ \cup {self}]} ELSE {T3}
                    : T3 \in collapse(T2, self, node) }
            : T2 \in squash_parents(TP[1], node, TP[2], fuel) }
        : TP \in squash_links(T, self, node, T.links_parent[self], {}, fuel) }

squash(T, self, node, fuel) ==
    IF ~Ok(T) \/ self = node THEN {T}
    ELSE IF fuel = 0 THEN {Raise(T, "RecursionError")}
    ELSE UNION {
        UNION {
            UNION { IF Ok(T3) THEN {[T3 EXCEPT !.invalid = @ \cup {self}]} ELSE {T3}
                    : T3 \in collapse(T2, self, node) }
            : T2 \in squash_parents(TP[1], node, TP[2], fuel) }
        : TP \in squash_links(T, self, node, T.links_parent[self], {}, fuel) }


(***************************************************************************)
(* make_single_parent (coldepnode.py 199-218).                             *)
(***************************************************************************)
\* the second loop: every parent link but link_single is removed
RECURSIVE msp_remove(_, _, _)
msp_remove(T, rem, link_single) ==
    IF ~Ok(T) \/ rem = {} THEN {T}
    ELSE UNION { msp_remove(IF ~LinkEq(l, link_single)
                            THEN remove_link(T, l.lhs, l, FALSE) ELSE T,
                            rem \ {l}, link_single)
                 : l \in rem }

\* variant: a node with two parent links is left alone
msp_prune_two(T, n) ==
    LET S == T.links_parent[n]
    IN  IF ~Ok(T) \/ Cardinality(S) <= 2 THEN {T}
        ELSE UNION { msp_remove(T, S, link_single) : link_single \in S }

\* the first loop keeps the first link met among those whose parent is deepest
msp_prune(T, n) ==
    LET S == T.links_parent[n]
    IN  IF ~Ok(T) \/ Cardinality(S) <= 1 THEN {T}
        ELSE IF \E l \in S : get_depth(T, l.lhs, RecursionLimit) = -1
             THEN {Raise(T, "RecursionError")}
        ELSE LET Deepest == { l \in S : \A m \in S :
                                get_depth(T, m.lhs, RecursionLimit)
                                    <= get_depth(T, l.lhs, RecursionLimit) }
             IN  UNION { msp_remove(T, S, link_single) : link_single \in Deepest }

RECURSIVE make_single_parent(_, _, _)
RECURSIVE msp_children(_, _, _)

\* the loop over self._links_child.copy()
msp_children(T, rem, fuel) ==
    IF ~Ok(T) \/ rem = {} THEN {T}
    ELSE UNION { UNION { msp_children(T1, rem \ {l}, fuel)
                         : T1 \in make_single_parent(T, l.rhs, fuel - 1) }
                 : l \in rem }

make_single_parent(T, n, fuel) ==
    IF ~Ok(T) THEN {T}
    ELSE IF fuel = 0 THEN {Raise(T, "RecursionError")}
    ELSE UNION { msp_prune(T1, n) : T1 \in msp_children(T, T.links_child[n], fuel) }

(***************************************************************************)
(* subsumes_children (coldepnode.py 72-91, 220-224).                       *)
(***************************************************************************)
_has_cn(T, n, cn) == \E cnset \in T.cnsets[n] : cn \in cnset

_has_cnset(T, n, cnset) == \A cn \in cnset : _has_cn(T, n, cn)

has_cnsets(T, n, cnsets) == \A cnset \in cnsets : _has_cnset(T, n, cnset)

\* is_subsumed: "True", "False" or "TypeError" when a _cnsets that is None is iterated
is_subsumed(T, self, nd) ==
    IF is_invalid(T, self) THEN "TypeError"
    ELSE IF is_invalid(T, nd) /\ (\E cnset \in T.cnsets[self] : cnset # {}) THEN "TypeError"
    ELSE IF has_cnsets(T, nd, T.cnsets[self]) THEN "True" ELSE "False"

RECURSIVE subsumes_children(_, _, _)
RECURSIVE subsumes_links(_, _, _, _)

\* the loop over self._links_child.copy()
subsumes_links(T, self, rem, fuel) ==
    IF ~Ok(T) \/ rem = {} THEN {T}
    ELSE UNION {
        UNION {
            LET s  == is_subsumed(T1, l.rhs, self)
                S2 == IF ~Ok(T1) THEN {T1}
                      ELSE IF s = "TypeError" THEN {Raise(T1, s)}
                      ELSE IF s = "True" THEN squash(T1, l.rhs, self, RecursionLimit)
                      ELSE {T1}
            IN  UNION { subsumes_links(T2, self, rem \ {l}, fuel) : T2 \in S2 }
            : T1 \in subsumes_children(T, l.rhs, fuel - 1) }
        : l \in rem }

subsumes_children(T, n, fuel) ==
    IF ~Ok(T) THEN {T}
    ELSE IF fuel = 0 THEN {Raise(T, "RecursionError")}
    ELSE subsumes_links(T, n, T.links_child[n], fuel)

(***************************************************************************)
(* validate (coldepnode.py 129-161).  The map given by ColDepTree.validate *)
(* is the empty dict, which is false, so lines 133-138 never run and the   *)
(* map stays empty through the recursion.                                  *)
(***************************************************************************)
RECURSIVE validate(_, _, _)
validate(T, n, fuel) ==
    IF fuel = 0 THEN FALSE
    ELSE
    /\ ~is_invalid(T, n)
    /\ \A link_parent \in T.links_parent[n] :
         /\ ~link_is_invalid(T, link_parent)
         /\ link_parent.rhs = n
         /\ ~(link_parent.cnset_rhs # {} /\ ~is_cnset(T, n, link_parent.cnset_rhs))
         /\ ~(link_parent.cnset_lhs # {}
                /\ ~is_cnset(T, link_parent.lhs, link_parent.cnset_lhs))
    /\ \A link_child \in T.links_child[n] :
         /\ ~link_is_invalid(T, link_child)
         /\ link_child.lhs = n
         /\ is_cnset(T, n, link_child.cnset_lhs)
         /\ is_cnset(T, link_child.rhs, link_child.cnset_rhs)
         /\ HasLink(T.links_parent[link_child.rhs], link_child)
         /\ validate(T, link_child.rhs, fuel - 1)


(***************************************************************************)
(* ColDepTree (coldeptree.py).  Iterating a node yields the rhs of each of *)
(* its child links.                                                        *)
(***************************************************************************)
Fault(r) == r[1] \notin {"node", "None"}

_find_node(T, cnset) ==
    FirstHit(UNION { find(T, l.rhs, cnset, RecursionLimit) : l \in T.links_child[T.root] },
             NotFound)

add_root(T, cnset, root) == append_link(T, T.root, {}, cnset, root)

\* variant: the link is appended without the ancestor and descendant tests
build_link_unchecked(T, coldep, node_lhs, node_rhs) ==
    IF node_lhs = node_rhs THEN {T}
    ELSE {append_link(T, node_lhs, coldep.lhs, coldep.rhs, node_rhs)}

\* lines 27-31 of build, both nodes found
build_link(T, coldep, node_lhs, node_rhs) ==
    IF node_lhs = node_rhs THEN {T}
    ELSE UNION {
        IF a = "RecursionError" THEN {Raise(T, a)}
        ELSE IF a = "True" THEN squash(T, node_lhs, node_rhs, RecursionLimit)
        ELSE UNION {
            IF h = "RecursionError" THEN {Raise(T, h)}
            ELSE IF h = "True" THEN squash(T, node_lhs, node_rhs, RecursionLimit)
            ELSE {append_link(T, node_lhs, coldep.lhs, coldep.rhs, node_rhs)}
            : h \in has_descendent(T, node_rhs, node_lhs, RecursionLimit) }
        : a \in is_ancestor(T, node_lhs, node_rhs, RecursionLimit) }

\* lines 22-31 of build, node_lhs known
build_rhs(T, coldep, node_lhs) ==
    UNION { IF Fault(r) THEN {Raise(T, r[1])}
            ELSE IF r = NotFound
                 THEN {append_link(NewNode(T, coldep.rhs), node_lhs,
                                   coldep.lhs, coldep.rhs, coldep.rhs)}
                 ELSE build_link(T, coldep, node_lhs, r[2])
            : r \in _find_node(T, coldep.rhs) }

\* one iteration of the loop of build
build(T, coldep) ==
    UNION { IF Fault(r) THEN {Raise(T, r[1])}
            ELSE IF r = NotFound
                 THEN build_rhs(add_root(NewNode(T, coldep.lhs), coldep.lhs, coldep.lhs),
                                coldep, coldep.lhs)
                 ELSE build_rhs(T, coldep, r[2])
            : r \in _find_node(T, coldep.lhs) }

tree_validate(T) ==
    \A l \in T.links_child[T.root] : validate(T, l.rhs, RecursionLimit)

\* variant: the other roots are left as they are
collapse_squashed_skipped(T, root_main, rem) == {T}

\* the second loop of collapse_roots, over the list root_squashed
RECURSIVE collapse_squashed(_, _, _)
collapse_squashed(T, root_main, rem) ==
    IF ~Ok(T) \/ rem = {} THEN {T}
    ELSE UNION { UNION { collapse_squashed(T1, root_main, rem \ {l})
                         : T1 \in collapse(T, l.rhs, root_main) }
                 : l \in rem }

collapse_roots(T) ==
    IF T.links_child[T.root] = {} THEN {T}
    ELSE UNION { { IF Ok(T1) THEN [T1 EXCEPT !.root = first.rhs] ELSE T1
                   : T1 \in collapse_squashed(T, first.rhs,
                                              T.links_child[T.root] \ {first}) }
                 : first \in T.links_child[T.root] }

\* "for root in self._root: root.op()" where op may change the set iterated
RECURSIVE tree_msp_roots(_, _)
tree_msp_roots(T, rem) ==
    IF ~Ok(T) \/ rem = {} THEN {T}
    ELSE UNION { UNION { IF Ok(T1) /\ Cardinality(T1.links_child[T.root])
                                        # Cardinality(T.links_child[T.root])
                         THEN {Raise(T1, "RuntimeError")}
                         ELSE tree_msp_roots(T1, rem \ {l})
                         : T1 \in make_single_parent(T, l.rhs, RecursionLimit) }
                 : l \in rem }

tree_make_single_parent(T) ==
    IF is_vroot(T, T.root) THEN tree_msp_roots(T, T.links_child[T.root])
    ELSE make_single_parent(T, T.root, RecursionLimit)

RECURSIVE tree_subsumes_roots(_, _)
tree_subsumes_roots(T, rem) ==
    IF ~Ok(T) \/ rem = {} THEN {T}
    ELSE UNION { UNION { IF Ok(T1) /\ Cardinality(T1.links_child[T.root])
                                        # Cardinality(T.links_child[T.root])
                         THEN {Raise(T1, "RuntimeError")}
                         ELSE tree_subsumes_roots(T1, rem \ {l})
                         : T1 \in subsumes_children(T, l.rhs, RecursionLimit) }
                 : l \in rem }

tree_subsumes_children(T) ==
    IF is_vroot(T, T.root) THEN tree_subsumes_roots(T, T.links_child[T.root])
    ELSE subsumes_children(T, T.root, RecursionLimit)

\* get_norminfos: ColDepNode defines no get_norminfos, so the call in the
\* loop raises AttributeError as soon as the root has a child
get_norminfos(T) ==
    IF T.links_child[T.root] = {} THEN T ELSE Raise(T, "AttributeError")

(***************************************************************************)
(* DataFrame, RowSet and RowSetManager (rowset.py, rowset_mgr.py).         *)
(* A DataFrame is its column names, its index labels, the cell values and  *)
(* len(df).  A table too long to write out is given by the rows that       *)
(* differ on some column (each index label standing for one of them) and   *)
(* len, the number of rows with the repeats counted.                       *)
(***************************************************************************)
MaxRows == 4        \* most rows written out in a table

Vals == {0, 1}                       \* cell values
KeyCol == "id"                       \* the designated key column

DataFrame(columns, index, at, len) ==
    [columns |-> columns, index |-> index, at |-> at, len |-> len]

\* df[list(cols)]
Project(df, cols) ==
    DataFrame(cols, df.index, [i \in df.index |-> [c \in cols |-> df.at[i][c]]], df.len)

\* df.drop(columns=cols)
Drop(df, cols) == Project(df, df.columns \ cols)

\* the rows of df with the labels in idx, len(df) becoming n
Rows(df, idx, n) ==
    DataFrame(df.columns, idx, [i \in idx |-> df.at[i]], n)

\* variant: every row is a group of its own
RowSet_by_label(df) ==
    [colnames |-> df.columns, rowset |-> { {i} : i \in df.index }]

\* RowSet.__init__: one row-group per distinct tuple of values
RowSet(df) ==
    [colnames |-> df.columns,
     rowset   |-> { { j \in df.index : df.at[j] = df.at[i] } : i \in df.index }]

\* RowSetManager.get: the cache returns what the first call built
rsm_get(df, cols) == RowSet(Project(df, cols))

\* variant: some row-group of self holds rg
issubset_holds(self, rg) == \E rg_in_rs \in self.rowset : rg \subseteq rg_in_rs

\* RowSet.issubset(rg): some row-group of self lies inside rg
issubset(self, rg) == \E rg_in_rs \in self.rowset : rg_in_rs \subseteq rg

\* RowSet.has_dep(rs): every row-group of self holds a row-group of rs
has_dep(self, rs) == \A rg \in self.rowset : issubset(rs, rg)

\* getattr: a RowSet object carries the attributes set in __init__ only
HasAttr(obj, name) == name \in DOMAIN obj

(***************************************************************************)
(* ColDep and ColDepSet (coldep.py, coldepset.py).  A ColDepSet is its     *)
(* _coldeps and _single_dep and the fault raised by the last call.         *)
(***************************************************************************)
is_wide_dep(coldep, cnset_lhs, cnset_rhs) ==
    coldep.lhs \subseteq cnset_lhs /\ coldep.rhs = cnset_rhs

_is_skip_ok(cds, cols_lhs, col_rhs) ==
    \E coldep \in cds : is_wide_dep(coldep, cols_lhs, col_rhs)

\* itertools.combinations(cols_lhs_cand, n)
Combinations(S, n) == { lhs \in SUBSET S : Cardinality(lhs) = n }

\* the body of "for n in range(1, len(cols_lhs_cand))" for one n: the
\* argument rs.cnset of the call of _is_skip_ok is evaluated first, and a
\* RowSet has no attribute cnset
analyze_size(cds, df, rs, cols_lhs_cand, n) ==
    IF Combinations(cols_lhs_cand, n) = {} THEN [cds |-> cds, err |-> "none"]
    ELSE IF ~HasAttr(rs, "cnset") THEN [cds |-> cds, err |-> "AttributeError"]
    ELSE [cds |-> cds \cup
                  { [lhs |-> lhs, rhs |-> rs.colnames] :
                      lhs \in { l \in Combinations(cols_lhs_cand, n) :
                                  /\ ~_is_skip_ok(cds, l, rs.cnset)
                                  /\ has_dep(rs, rsm_get(df, l)) } },
          err |-> "none"]

\* the loop over n for one column: range(1, len(cols_lhs_cand)), left by
\* the break after the first n in single-dependency mode
RECURSIVE analyze_sizes(_, _, _, _, _, _)
analyze_sizes(cds, single_dep, df, rs, cols_lhs_cand, n) ==
    IF n >= Cardinality(cols_lhs_cand) THEN [cds |-> cds, err |-> "none"]
    ELSE LET r == analyze_size(cds, df, rs, cols_lhs_cand, n)
         IN  IF r.err # "none" \/ single_dep THEN r
             ELSE analyze_sizes(r.cds, single_dep, df, rs, cols_lhs_cand, n + 1)

\* the loop over df.columns; what one column records never decides what is
\* skipped or recorded for another, so the columns are taken in any order
RECURSIVE analyze_columns(_, _, _, _)
analyze_columns(cds, single_dep, df, rem) ==
    IF rem = {} THEN [cds |-> cds, err |-> "none"]
    ELSE LET col == CHOOSE c \in rem : TRUE
             r   == analyze_sizes(cds, single_dep, df, rsm_get(df, {col}),
                                  df.columns \ {col}, 1)
         IN  IF r.err # "none" THEN r
             ELSE analyze_columns(r.cds, single_dep, df, rem \ {col})

_analyze_coldeps(cds, single_dep, df) == analyze_columns(cds, single_dep, df, df.columns)

\* variant: the dependencies are kept without being tested
_analyze_with_my_coldeps_kept(cds, df) == [cds |-> cds, err |-> "none", ret |-> TRUE]

_analyze_with_my_coldeps(cds, df) ==
    LET coldeps_ok == { coldep \in cds :
                          has_dep(rsm_get(df, coldep.rhs), rsm_get(df, coldep.lhs)) }
    IN  [cds |-> coldeps_ok, err |-> "none",
         ret |-> (Cardinality(coldeps_ok) = Cardinality(cds))]

\* ColDepSet.analyze: [cds, err, ret]
analyze(cds, single_dep, df) ==
    IF cds = {}
    THEN LET r == _analyze_coldeps(cds, single_dep, df)
         IN  [cds |-> r.cds, err |-> r.err, ret |-> FALSE]
    ELSE _analyze_with_my_coldeps(cds, df)

\* build of a whole dependency set, taken in any order
RECURSIVE tree_build(_, _)
tree_build(T, rem) ==
    IF ~Ok(T) \/ rem = {} THEN {T}
    ELSE UNION { UNION { tree_build(T1, rem \ {coldep}) : T1 \in build(T, coldep) }
                 : coldep \in rem }

(***************************************************************************)
(* normaliza.py and QufaES.load_from_csv (qufa_ES.py 50-69).               *)
(***************************************************************************)
n_samples == 1000

\* the members of the enum Error (error.py)
Error == {"OK", "ERR_GENERAL", "ERR_INVALID_ARG", "ERR_COLUMN_COUNT_MISMATCH",
          "ERR_ONGOING", "ERR_DATA_NOT_FOUND", "ERR_LABEL_NOT_FOUND"}

\* lines 14-19 of get_norminfos_for_es: the graphs the five calls can leave
tree_pipeline(cds) ==
    { get_norminfos(T4) :
        T4 \in UNION { tree_subsumes_children(T3) :
        T3 \in UNION { tree_make_single_parent(T2) :
        T2 \in UNION { collapse_roots(T1) :
        T1 \in tree_build(EmptyGraph, cds) } } } }

\* EntitySet.entity_from_dataframe and normalize_entity with an empty list
\* of groups: the entity set is built, or the call raises when the index
\* column holds a value twice
IndexUnique(df, colname_key) ==
    \A i, j \in df.index : df.at[i][colname_key] = df.at[j][colname_key] => i = j

entity_from_dataframe(df, colname_key) ==
    IF IndexUnique(df, colname_key) THEN {"none"} ELSE {"none", "AssertionError"}

\* the except clause of load_from_csv, then lines 57-69: the ways the call
\* can end once get_norminfos_for_es has ended with fault f
load_from_csv_end(df, colname_key, f) ==
    IF f = "AssertionError"
    THEN IF "ERR_COLUMN_BAD" \in Error
         THEN { [pc |-> "returned", result |-> "ERR_COLUMN_BAD"] }
         ELSE { [pc |-> "raised", result |-> "AttributeError"] }
    ELSE IF f # "none" THEN { [pc |-> "raised", result |-> f] }
    ELSE { IF e = "none" THEN [pc |-> "returned", result |-> "OK"]
                         ELSE [pc |-> "raised", result |-> e]
           : e \in entity_from_dataframe(df, colname_key) }

(***************************************************************************)
(* State.                                                                  *)
(***************************************************************************)
VARIABLES
    tree,               \* the object graph of the ColDepTree being worked on
    coldeps,            \* the dependencies build has processed so far
    phase,              \* last ColDepTree step completed
    removed,            \* the last remove_link call: the node and its arguments
    df,                 \* the table under analysis
    _coldeps,           \* ColDepSet._coldeps
    _single_dep,        \* ColDepSet._single_dep
    ret,                \* the last call on the RowSet or ColDepSet and its result
    data,               \* load_from_csv: the table read, key column included
    pc,                 \* load_from_csv: where the call is
    n_stable_checked,   \* _get_coldeps_by_iterative_sampling: its counter
    df_samp,            \* _get_coldeps_by_iterative_sampling: the index labels drawn
    norminfos,          \* load_from_csv: the list get_norminfos_for_es returned
    result,             \* load_from_csv: the value returned or the exception raised
    _columns,           \* FeatureExtractor._columns, ColumnSpec.columns
    err,                \* ColumnSpec.validate: what the call gave
    array,              \* max_consecutive_true: its argument
    skipna,             \* MaxConsecutiveTrue.skipna
    max_count,          \* max_consecutive_true: the value returned
    run,                \* extract_features: where the call is
    n_total_rows,       \* QufaCsv.load: the line count of the file
    n_rows,             \* QufaCsv.load: its row counter
    _prog,              \* FeatureExtractor._prog
    feature_matrix,     \* FeatureExtractor.feature_matrix
    feature_helper,     \* FeatureExtractor.feature_helper
    handled,            \* the values proghandler has been called with, in order
    progress_percent,   \* the last progress_percent dfs gave its callback
    info,               \* the last get_feature_info call: when made and what it gave
    file,               \* IPC: the text of the file at self.path, None when there is no file
    writer,             \* IPC: the _write_prog call under way, None when there is none
    reader,             \* IPC: per calling process, where its get_prog call is and what it gave
    last_write,         \* IPC: the call whose text the file holds
    observed,           \* IPC: a get_prog has returned 100 and no write has begun since
    n_complete,         \* IPC: the set_complete calls made
    n_seen,             \* IPC: the get_prog calls that returned 100
    n_writes,           \* IPC: the writes begun
    n_calls             \* IPC: the get_prog calls begun

treeVars == <<tree, coldeps, phase, removed>>
depVars == <<df, _coldeps, _single_dep, ret>>
driverVars == <<data, pc, n_stable_checked, df_samp, norminfos, result>>
colspecVars == <<_columns, err>>
primVars == <<array, skipna, max_count>>
extractVars == <<run, n_total_rows, n_rows, _prog, feature_matrix, feature_helper,
                 handled, progress_percent, info>>
ipcVars == <<file, writer, reader, last_write, observed, n_complete, n_seen,
             n_writes, n_calls>>
mkfeatVars == <<colspecVars, primVars, extractVars, ipcVars>>
vars == <<tree, coldeps, phase, removed, df, _coldeps, _single_dep, ret,
          data, pc, n_stable_checked, df_samp, norminfos, result,
          _columns, err, array, skipna, max_count,
          run, n_total_rows, n_rows, _prog, feature_matrix, feature_helper,
          handled, progress_percent, info,
          file, writer, reader, last_write, observed, n_complete, n_seen,
          n_writes, n_calls>>

NoTable == DataFrame({}, {}, <<>>, 0)
NoCall == [op |-> "none", lhs |-> {}, rhs |-> {}, val |-> FALSE, err |-> "none",
           rowset |-> {}]

TreeIdle == tree = EmptyGraph /\ coldeps = {} /\ phase = "idle" /\ removed = <<>>
DepIdle == df = NoTable /\ _coldeps = {} /\ _single_dep = TRUE /\ ret = NoCall
DriverIdle ==
    /\ data = NoTable /\ pc = "idle" /\ n_stable_checked = 0
    /\ df_samp = {} /\ norminfos = <<>> /\ result = "none"

\* Python None, and a value that is not None
None == <<>>
Some(v) == <<v>>

NoInfo == [at |-> "none", val |-> "none"]

Readers == {"r1", "r2"}             \* the processes that call get_prog
NoRead == [at |-> "idle", prog |-> <<>>, src |-> "none", got |-> <<>>, raised |-> "none"]

IpcIdle ==
    /\ file = None /\ writer = None /\ reader = [r \in Readers |-> NoRead]
    /\ last_write = "none" /\ observed = FALSE
    /\ n_complete = 0 /\ n_seen = 0 /\ n_writes = 0 /\ n_calls = 0

ColSpecIdle == _columns = <<>> /\ err = None
PrimIdle == array = <<>> /\ skipna = TRUE /\ max_count = None
ExtractIdle ==
    /\ run = "none" /\ n_total_rows = 0 /\ n_rows = 0
    /\ _prog = None /\ feature_matrix = None /\ feature_helper = None
    /\ handled = <<>> /\ progress_percent = None /\ info = NoInfo

\* the nodes met walking child links from the root, the root included
RECURSIVE ReachFrom(_, _)
ReachFrom(T, S) ==
    LET S1 == S \cup { l.rhs : l \in UNION { T.links_child[n] : n \in S } }
    IN  IF S1 = S THEN S ELSE ReachFrom(T, S1)

Reachable(T) == ReachFrom(T, {T.root})

(***************************************************************************)
(* The ColDepTree steps on a dependency set handed to build.               *)
(***************************************************************************)
TreeInit ==
    /\ tree = EmptyGraph
    /\ coldeps = {}
    /\ phase = "build"
    /\ removed = <<>>
    /\ DepIdle /\ DriverIdle
    /\ ColSpecIdle /\ PrimIdle /\ ExtractIdle /\ IpcIdle

\* build processes one more dependency of the set, in any order
Build(coldep) ==
    /\ phase = "build" /\ Ok(tree)
    /\ coldep \notin coldeps
    /\ Cardinality(coldeps) < MaxDeps
    /\ tree' \in build(tree, coldep)
    /\ coldeps' = coldeps \cup {coldep}
    /\ UNCHANGED <<phase, removed, depVars, driverVars, mkfeatVars>>

CollapseRoots ==
    /\ phase = "build" /\ Ok(tree)
    /\ tree' \in collapse_roots(tree)
    /\ phase' = "collapse_roots"
    /\ UNCHANGED <<coldeps, removed, depVars, driverVars, mkfeatVars>>

\* collapse_roots called once more on the collapsed tree
CollapseRootsAgain ==
    /\ phase = "collapse_roots" /\ Ok(tree)
    /\ tree' \in collapse_roots(tree)
    /\ phase' = "collapse_roots_again"
    /\ UNCHANGED <<coldeps, removed, depVars, driverVars, mkfeatVars>>

MakeSingleParent ==
    /\ phase \in {"build", "collapse_roots"} /\ Ok(tree)
    /\ tree' \in tree_make_single_parent(tree)
    /\ phase' = IF phase = "build" THEN "make_single_parent_only" ELSE "make_single_parent"
    /\ UNCHANGED <<coldeps, removed, depVars, driverVars, mkfeatVars>>

SubsumesChildren ==
    /\ phase = "make_single_parent" /\ Ok(tree)
    /\ tree' \in tree_subsumes_children(tree)
    /\ phase' = "subsumes_children"
    /\ UNCHANGED <<coldeps, removed, depVars, driverVars, mkfeatVars>>

GetNorminfos ==
    /\ phase = "subsumes_children" /\ Ok(tree)
    /\ tree' = get_norminfos(tree)
    /\ phase' = "get_norminfos"
    /\ UNCHANGED <<coldeps, removed, depVars, driverVars, mkfeatVars>>

\* node.squash(node) on a node of the graph build has made
SquashSelf(n) ==
    /\ phase = "build" /\ Ok(tree)
    /\ n \in Reachable(tree) \ {tree.root}
    /\ tree' \in squash(tree, n, n, RecursionLimit)
    /\ phase' = "squash_self"
    /\ UNCHANGED <<coldeps, removed, depVars, driverVars, mkfeatVars>>

\* node.add_cnset(cnset) on a node of the graph build has made, cnset being
\* a column-subset some node of the graph owns
AddCnset(n, cnset) ==
    /\ phase = "build" /\ Ok(tree)
    /\ n \in Reachable(tree) \ (tree.invalid \cup {tree.root})
    /\ cnset \in UNION { tree.cnsets[m] : m \in Reachable(tree) \ tree.invalid }
    /\ tree' = add_cnset_frozenset(tree, n, cnset)
    /\ phase' = "add_cnset"
    /\ UNCHANGED <<coldeps, removed, depVars, driverVars, mkfeatVars>>

\* the links remove_link is called with: the links held by any node made so
\* far, and links built afresh from n for a dependency already processed
LinkInputs(T, n) ==
    UNION { T.links_child[m] \cup T.links_parent[m] : m \in T.made }
    \cup { ColDepLink(n, m, d.lhs, d.rhs) :
             m \in Reachable(T) \ (T.invalid \cup {n, T.root}), d \in coldeps }

\* node.remove_link(link, force) on a node of the graph build has made
RemoveLink(force) ==
    /\ phase = "build" /\ Ok(tree)
    /\ \E n \in Reachable(tree) \ tree.invalid :
         \E link \in LinkInputs(tree, n) :
            /\ tree' = remove_link(tree, n, link, force)
            /\ removed' = <<[self |-> n, link |-> link, force |-> force]>>
    /\ phase' = "remove_link"
    /\ UNCHANGED <<coldeps, depVars, driverVars, mkfeatVars>>

TreeNext ==
    \/ \E coldep \in ColDep : Build(coldep)
    \/ \E force \in BOOLEAN : RemoveLink(force)
    \/ \E n \in Node, cnset \in CnSet : AddCnset(n, cnset)
    \/ \E n \in Node : SquashSelf(n)
    \/ CollapseRoots
    \/ CollapseRootsAgain
    \/ MakeSingleParent
    \/ SubsumesChildren
    \/ GetNorminfos

TreeSpec == TreeInit /\ [][TreeNext]_vars

\* C1: after a squash no link held by a node reachable from the root has a
\* tombstoned node at either end
C1_NoDanglingLinkAfterSquash ==
    \A n \in Reachable(tree) :
        \A l \in tree.links_child[n] \cup tree.links_parent[n] :
            ~is_invalid(tree, l.lhs) /\ ~is_invalid(tree, l.rhs)

\* a node has been squashed and a link made for its column-subset now ends
\* at the node it was squashed into
C1_Witness ==
    /\ Ok(tree)
    /\ \E n \in Reachable(tree) : \E l \in tree.links_parent[n] :
          /\ is_invalid(tree, l.cnset_rhs)
          /\ l.rhs = n /\ ~is_invalid(tree, n)
          /\ HasLink(tree.links_child[l.lhs], l)

\* C2: once build has processed X -> Y and Y -> X, one valid node owns both
\* X and Y, and no two valid nodes are each other's child
C2_MutualDeterminationMerged ==
    (phase = "build") =>
        /\ \A d, e \in coldeps :
              (d.lhs = e.rhs /\ d.rhs = e.lhs) =>
                  /\ Ok(tree)
                  /\ \E n \in Reachable(tree) \ tree.invalid :
                        /\ {d.lhs, d.rhs} \subseteq tree.cnsets[n]
                        /\ _find_node(tree, d.lhs) = {<<"node", n>>}
                        /\ _find_node(tree, d.rhs) = {<<"node", n>>}
        /\ \A n \in tree.made \ tree.invalid :
              \A l \in tree.links_child[n] :
                  \A m \in tree.links_child[l.rhs] : m.rhs # n

C2_Witness ==
    /\ phase = "build" /\ Ok(tree)
    /\ \E d, e \in coldeps : d.lhs = e.rhs /\ d.rhs = e.lhs
    /\ tree.invalid # {}

\* C3: after make_single_parent, run with or without collapse_roots before
\* it, every node reachable from the root but the root has one parent link
C3_SingleParent ==
    (phase \in {"make_single_parent", "make_single_parent_only"}) =>
        /\ Ok(tree)
        /\ \A n \in Reachable(tree) \ {tree.root} :
              Cardinality(tree.links_parent[n]) = 1

\* make_single_parent has run on a graph built from two dependencies with
\* the same dependent column, which had two parents
C3_Witness ==
    /\ phase \in {"make_single_parent", "make_single_parent_only"} /\ Ok(tree)
    /\ \E d, e \in coldeps :
          /\ d.rhs = e.rhs /\ d.lhs # e.lhs
          /\ d.rhs \in Reachable(tree) /\ ~is_invalid(tree, d.rhs)
          /\ {d.lhs, e.lhs} \subseteq Reachable(tree)
          /\ d.rhs \notin tree.cnsets[d.lhs] /\ d.rhs \notin tree.cnsets[e.lhs]

\* C13: node.squash(node) leaves the node valid and the column-subsets and
\* links of every node as they were
C13_SelfSquashNoOp ==
    [][ (phase' = "squash_self") => (tree' = tree) ]_vars

\* squash(self) has been called on a valid node with a parent link from
\* another node than the root and a child link
C13_Witness ==
    /\ phase = "squash_self" /\ Ok(tree)
    /\ \E n \in Reachable(tree) \ (tree.invalid \cup {tree.root}) :
          /\ tree.links_child[n] # {}
          /\ \E l \in tree.links_parent[n] : l.lhs # tree.root

\* the number of links on the longest path from the root down to n
RECURSIVE PathDepth(_, _, _)
PathDepth(T, n, fuel) ==
    IF n = T.root \/ fuel = 0 \/ T.links_parent[n] = {} THEN 0
    ELSE LET D == { PathDepth(T, l.lhs, fuel - 1) : l \in T.links_parent[n] }
         IN  1 + CHOOSE d \in D : \A e \in D : e <= d

\* C19: make_single_parent keeps, for a node with several parent links, a
\* link from a parent of greatest depth from the root; stated for the graphs
\* in which one node only has several parent links, so that the depths are
\* the same before the step and when the node is pruned
C19_KeepsDeepestParent ==
    [][ (phase' \in {"make_single_parent", "make_single_parent_only"}
            /\ phase' # phase /\ Ok(tree'))
        => \A n \in Reachable(tree) \ {tree.root} :
              ( /\ Cardinality(tree.links_parent[n]) > 1
                /\ \A m \in Reachable(tree) \ {n} :
                      Cardinality(tree.links_parent[m]) <= 1 )
              => \A l \in tree'.links_parent[n] : \A k \in tree.links_parent[n] :
                    PathDepth(tree, k.lhs, RecursionLimit)
                        <= PathDepth(tree, l.lhs, RecursionLimit) ]_vars

\* C20: ColDepTree.validate() is false whenever two different nodes reachable
\* from the root own the same column-subset
C20_ValidateDetectsTwoOwners ==
    ( /\ Ok(tree)
      /\ \E a, b \in Reachable(tree) \ (tree.invalid \cup {tree.root}) :
            a # b /\ tree.cnsets[a] \cap tree.cnsets[b] # {} )
    => ~tree_validate(tree)

\* C21: a second collapse_roots leaves the root, the nodes reachable from
\* it, their column-subsets and their links as the first one left them
C21_CollapseRootsIdempotent ==
    [][ (phase' = "collapse_roots_again")
        => /\ Ok(tree')
           /\ tree'.root = tree.root
           /\ Reachable(tree') = Reachable(tree)
           /\ \A n \in Reachable(tree) :
                 /\ is_invalid(tree', n) = is_invalid(tree, n)
                 /\ tree'.cnsets[n] = tree.cnsets[n]
                 /\ tree'.links_child[n] = tree.links_child[n]
                 /\ tree'.links_parent[n] = tree.links_parent[n] ]_vars

\* C24: collapse_roots on a built tree with roots under the virtual root
\* leaves one of them as the root; it owns every column-subset a root owned,
\* and every child of a former root is its child under the same two
\* column-subsets
C24_CollapseRootsMergesRoots ==
    [][ (phase = "build" /\ phase' = "collapse_roots"
            /\ tree.links_child[tree.root] # {})
        => LET roots == { l.rhs : l \in tree.links_child[tree.root] }
           IN  /\ Ok(tree')
               /\ tree'.root \in roots
               /\ ~is_invalid(tree', tree'.root)
               /\ tree'.cnsets[tree'.root] = UNION { tree.cnsets[r] : r \in roots }
               /\ \A r \in roots : \A l \in tree.links_child[r] :
                     \E m \in tree'.links_child[tree'.root] :
                         /\ m.lhs = tree'.root /\ m.rhs = l.rhs
                         /\ LinkEq(m, l)
                         /\ HasLink(tree'.links_parent[l.rhs], m) ]_vars

\* collapse_roots has merged two roots that each had a child
C24_Witness ==
    /\ phase = "collapse_roots" /\ Ok(tree)
    /\ Cardinality(tree.cnsets[tree.root]) >= 2
    /\ \E l, m \in tree.links_child[tree.root] :
          l.cnset_lhs # m.cnset_lhs /\ l.rhs # m.rhs

\* the valid nodes reachable from the root that own cnset
Owners(T, cnset) == { n \in Reachable(T) \ T.invalid : cnset \in T.cnsets[n] }

\* C23: after every iteration of build and after collapse_roots,
\* make_single_parent and subsumes_children run in that order, each
\* determinant and each dependent of the dependency set is owned by one
\* valid node reachable from the root
C23_OneOwnerPerSubset ==
    (phase \in {"build", "collapse_roots", "make_single_parent", "subsumes_children"})
    => /\ Ok(tree)
       /\ \A d \in coldeps :
             /\ Cardinality(Owners(tree, d.lhs)) = 1
             /\ Cardinality(Owners(tree, d.rhs)) = 1

\* the whole pipeline has run on a graph in which a node was squashed, and
\* a node now owns two column-subsets of the dependency set
C23_Witness ==
    /\ phase = "subsumes_children" /\ Ok(tree)
    /\ tree.invalid # {}
    /\ \E d, e \in coldeps : \E n \in Reachable(tree) \ tree.invalid :
          d.lhs # e.rhs /\ {d.lhs, e.rhs} \subseteq tree.cnsets[n]

\* C25: in every state build, collapse_roots, make_single_parent and
\* subsumes_children reach, a valid node reachable from the root holds a
\* link as child link exactly when the node the link ends at holds it as
\* parent link, and holds a link as parent link exactly when the node the
\* link starts from holds it as child link
C25_LinksSymmetric ==
    (phase \in {"build", "collapse_roots", "make_single_parent",
                "make_single_parent_only", "subsumes_children"})
    => /\ Ok(tree)
       /\ \A n \in Reachable(tree) \ tree.invalid :
             /\ \A l \in tree.links_child[n] :
                   l.lhs = n /\ l \in tree.links_parent[l.rhs]
             /\ \A l \in tree.links_parent[n] :
                   l.rhs = n /\ l \in tree.links_child[l.lhs]

\* a pass has run on a graph in which a node was squashed, and a valid node
\* under the root holds a parent link and a child link
C25_Witness ==
    /\ phase \in {"make_single_parent", "subsumes_children"} /\ Ok(tree)
    /\ tree.invalid # {}
    /\ \E n \in Reachable(tree) \ (tree.invalid \cup {tree.root}) :
          tree.links_parent[n] # {} /\ tree.links_child[n] # {}

\* the nodes below n: the ends of the child links of n and all below them
Descendants(T, n) == ReachFrom(T, { l.rhs : l \in T.links_child[n] })

\* C28: after every iteration of build, for every dependency set and every
\* processing order, build has not failed and no node reachable from the
\* virtual root is its own descendant
C28_BuildKeepsAcyclic ==
    (phase = "build")
    => /\ Ok(tree)
       /\ \A n \in Reachable(tree) : n \notin Descendants(tree, n)

\* build has squashed a node (the step that re-links parents and children)
\* and a later iteration has put a link below the node that took it in
C28_Witness ==
    /\ phase = "build" /\ Ok(tree) /\ tree.invalid # {}
    /\ \E n \in Reachable(tree) \ {tree.root} :
          Cardinality(tree.cnsets[n]) >= 2 /\ tree.links_child[n] # {}

\* C30: remove_link(link, force=True) with the link in neither the child set
\* of the node it is called on nor the parent set of the node it ends at
\* raises nothing and changes no link set; remove_link(link, force=False)
\* with the link not in the child set of the node raises KeyError and leaves
\* every link set, the parent set of the end node included, as it was; with
\* the link in both sets, either mode raises nothing and takes it out of both
C30_RemoveLinkFrame ==
    [][ (phase' = "remove_link")
        => LET c     == removed'[1]
               src   == c.self
               dst   == c.link.rhs
               inSrc == HasLink(tree.links_child[src], c.link)
               inDst == HasLink(tree.links_parent[dst], c.link)
               same  == /\ tree'.links_child = tree.links_child
                        /\ tree'.links_parent = tree.links_parent
           IN  /\ (c.force /\ ~inSrc /\ ~inDst) => Ok(tree') /\ same
               /\ (~c.force /\ ~inSrc) => tree'.err = "KeyError" /\ same
               /\ (inSrc /\ inDst)
                    => /\ Ok(tree')
                       /\ ~HasLink(tree'.links_child[src], c.link)
                       /\ ~HasLink(tree'.links_parent[dst], c.link) ]_vars

\* a link held at both ends has been removed without force
C30_Witness ==
    /\ phase = "remove_link" /\ Ok(tree) /\ removed # <<>>
    /\ ~removed[1].force
    /\ removed[1].link.lhs = removed[1].self
    /\ removed[1].self # tree.root
    /\ ~HasLink(tree.links_child[removed[1].self], removed[1].link)
    /\ ~HasLink(tree.links_parent[removed[1].link.rhs], removed[1].link)

\* the nodes above the nodes of S: the starts of their parent links and all
\* above them
RECURSIVE AncestorsFrom(_, _)
AncestorsFrom(T, S) ==
    LET S1 == S \cup { l.lhs : l \in UNION { T.links_parent[n] : n \in S } }
    IN  IF S1 = S THEN S ELSE AncestorsFrom(T, S1)

Ancestors(T, n) == AncestorsFrom(T, { l.lhs : l \in T.links_parent[n] })

\* C22: after subsumes_children on the single-parent tree, no valid node under
\* the root has all columns of its column-subsets among the columns of one of
\* its ancestors
C22_NoNodeCoveredByAncestor ==
    (phase = "subsumes_children")
    => /\ Ok(tree)
       /\ \A n \in Reachable(tree) \ (tree.invalid \cup {tree.root}) :
             \A a \in Ancestors(tree, n) \ tree.invalid :
                 ~has_cnsets(tree, a, tree.cnsets[n])

\* C7: ColDepTree.validate() is true after every iteration of build and
\* after collapse_roots, make_single_parent and subsumes_children
C7_ValidateHolds ==
    (phase \in {"build", "collapse_roots", "make_single_parent",
                "make_single_parent_only", "subsumes_children"})
    => Ok(tree) /\ tree_validate(tree)

\* all the steps have run on a graph in which a node was squashed
C7_Witness ==
    /\ phase = "subsumes_children"
    /\ tree.invalid # {}
    /\ tree.links_child[tree.root] # {}
    /\ tree_validate(tree)

(***************************************************************************)
(* RowSet and ColDepSet on a table written out in full.  The first row    *)
(* holds 0 in every column: has_dep reads the values only through their   *)
(* equality within a column.                                               *)
(***************************************************************************)
MaxAdd == 2         \* most dependencies handed to ColDepSet.add

MinSample == 3      \* fewest rows of a sample handed to analyze

DepCols == {"zip", "city", "state"}

Tables(columns, n) ==
    { DataFrame(columns, 0..(n - 1), at, n) :
        at \in { f \in [0..(n - 1) -> [columns -> Vals]] :
                   \A c \in columns : f[0][c] = 0 } }

DepColDep == { d \in ColDep : d.lhs \cup d.rhs \subseteq DepCols }

DepInit ==
    /\ df \in Tables(DepCols, MaxRows)
    /\ _coldeps = {}
    /\ _single_dep \in BOOLEAN
    /\ ret = NoCall
    /\ TreeIdle /\ DriverIdle
    /\ ColSpecIdle /\ PrimIdle /\ ExtractIdle /\ IpcIdle

\* rsm.get(cnset_rhs).has_dep(rsm.get(cnset_lhs)) on the whole table
HasDep(cnset_rhs, cnset_lhs) ==
    /\ ret.op = "none" /\ _coldeps = {}
    /\ ret' = [op |-> "has_dep", lhs |-> cnset_lhs, rhs |-> cnset_rhs,
               val |-> has_dep(rsm_get(df, cnset_rhs), rsm_get(df, cnset_lhs)),
               err |-> "none", rowset |-> {}]
    /\ UNCHANGED <<df, _coldeps, _single_dep, treeVars, driverVars, mkfeatVars>>

\* RowSetManager(df).get(cols): the row-groups of the RowSet are kept in ret
Get(cols) ==
    /\ ret.op = "none" /\ _coldeps = {}
    /\ ret' = [op |-> "get", lhs |-> cols, rhs |-> {}, val |-> FALSE,
               err |-> "none", rowset |-> rsm_get(df, cols).rowset]
    /\ UNCHANGED <<df, _coldeps, _single_dep, treeVars, driverVars, mkfeatVars>>

\* ColDepSet.add
Add(coldep) ==
    /\ ret.op = "none"
    /\ coldep \notin _coldeps
    /\ Cardinality(_coldeps) < MaxAdd
    /\ _coldeps' = _coldeps \cup {coldep}
    /\ UNCHANGED <<df, _single_dep, ret, treeVars, driverVars, mkfeatVars>>

\* ColDepSet.analyze on the rows of df labelled idx; op tells discovery
\* from re-analysis, and df_samp keeps the labels of the sample
Analyze(idx) ==
    /\ ret.op \in {"none", "discover", "reanalyze"} /\ ret.err = "none"
    /\ \E r \in {analyze(_coldeps, _single_dep, Rows(df, idx, Cardinality(idx)))} :
           /\ _coldeps' = r.cds
           /\ ret' = [op |-> IF _coldeps = {} THEN "discover" ELSE "reanalyze",
                      lhs |-> {}, rhs |-> {}, val |-> r.ret, err |-> r.err,
                      rowset |-> {}]
    /\ df_samp' = idx
    /\ UNCHANGED <<df, _single_dep, treeVars, mkfeatVars,
                   data, pc, n_stable_checked, norminfos, result>>

\* analyze on the whole table or on any sample of MinSample of its rows or more
AnalyzeStep ==
    \E idx \in { i \in SUBSET df.index : Cardinality(i) >= MinSample } : Analyze(idx)

DepNext ==
    \/ \E rhs \in { {c} : c \in DepCols } :
         \E lhs \in (SUBSET (DepCols \ rhs)) \ {{}} : HasDep(rhs, lhs)
    \/ \E cols \in (SUBSET DepCols) \ {{}} : Get(cols)
    \/ \E coldep \in DepColDep : Add(coldep)
    \/ AnalyzeStep

DepSpec == DepInit /\ [][DepNext]_vars

\* rows that agree on the columns lhs agree on the columns rhs
Determines(t, lhs, rhs) ==
    \A i, j \in t.index :
        (\A c \in lhs : t.at[i][c] = t.at[j][c]) => (\A c \in rhs : t.at[i][c] = t.at[j][c])

\* C4: dependent.has_dep(determinant) is true exactly when every row-group
\* of the determinant lies inside a row-group of the dependent, that is when
\* rows that agree on the determinant agree on the dependent
C4_HasDepIsRefinement ==
    (ret.op = "has_dep") =>
        /\ ret.val <=> \A g \in rsm_get(df, ret.lhs).rowset :
                          \E h \in rsm_get(df, ret.rhs).rowset : g \subseteq h
        /\ ret.val <=> Determines(df, ret.lhs, ret.rhs)

\* C11: the row-groups of the RowSet of the table projected on S are
\* non-empty, pairwise disjoint and cover the row labels, and two rows are
\* in one group exactly when their values on S are equal
C11_RowSetPartition ==
    (ret.op = "get") =>
        /\ {} \notin ret.rowset
        /\ UNION ret.rowset = df.index
        /\ \A g, h \in ret.rowset : g # h => g \cap h = {}
        /\ \A i, j \in df.index :
              (\E g \in ret.rowset : i \in g /\ j \in g)
                  <=> (\A c \in ret.lhs : df.at[i][c] = df.at[j][c])

\* a RowSet over two columns with a group of two rows and another group
C11_Witness ==
    /\ ret.op = "get" /\ Cardinality(ret.lhs) = 2
    /\ Cardinality(ret.rowset) >= 2
    /\ \E g \in ret.rowset : Cardinality(g) >= 2

\* C12: when column B is a function of column A in the table,
\* RowSet({B}).has_dep(RowSet({A})) is true
C12_FunctionImpliesHasDep ==
    ( /\ ret.op = "has_dep"
      /\ Cardinality(ret.lhs) = 1 /\ Cardinality(ret.rhs) = 1
      /\ Determines(df, ret.lhs, ret.rhs) )
    => ret.val

\* B is a function of A that sends two values of A to one value of B and
\* takes more than one value
C12_Witness ==
    /\ ret.op = "has_dep" /\ ret.val
    /\ Cardinality(ret.lhs) = 1 /\ Cardinality(ret.rhs) = 1
    /\ Determines(df, ret.lhs, ret.rhs) /\ ~Determines(df, ret.rhs, ret.lhs)

C5_MinimalityPruning ==
    (ret.op = "discover") =>
        /\ ret.err = "none"
        /\ \A d, e \in _coldeps :
              ~(d.rhs = e.rhs /\ d.lhs \subseteq e.lhs /\ d.lhs # e.lhs)

(***************************************************************************)
(* Discovery on a whole table of four columns, where determinants of one   *)
(* and of two columns are both inside range(1, len(cols_lhs_cand)).        *)
(***************************************************************************)
EnumRows == 3       \* rows of the tables given to discovery

EnumInit ==
    /\ df \in Tables(Cols, EnumRows)
    /\ _coldeps = {}
    /\ _single_dep \in BOOLEAN
    /\ ret = NoCall
    /\ TreeIdle /\ DriverIdle
    /\ ColSpecIdle /\ PrimIdle /\ ExtractIdle /\ IpcIdle

\* coldeps.analyze(df) on an empty ColDepSet (normaliza.py 26)
Discover == Analyze(df.index)

EnumNext == Discover

EnumSpec == EnumInit /\ [][EnumNext]_vars

\* the determinants of n columns of column c the test of line 42 accepts
Found(t, c, n) ==
    { lhs \in Combinations(t.columns \ {c}, n) :
        has_dep(rsm_get(t, {c}), rsm_get(t, lhs)) }

\* C18: in single-dependency mode, when no determinant of a size below n is
\* found for a column and one of size n is, n being a size of the loop and
\* above 1, the dependencies of size n are recorded for the column and no
\* other
C18_SingleDepNextSizeTested ==
    (ret.op = "discover" /\ _single_dep) =>
        \A c \in df.columns :
            \A n \in 2..(Cardinality(df.columns) - 2) :
                ( /\ Found(df, c, n) # {}
                  /\ \A k \in 1..(n - 1) : Found(df, c, k) = {} )
                => { d.lhs : d \in { e \in _coldeps : e.rhs = {c} } } = Found(df, c, n)

(***************************************************************************)
(* load_from_csv from line 50 on, data and the key column name in hand.    *)
(***************************************************************************)
DriverTables ==
    UNION { Tables(columns, MaxRows)
            : columns \in {{"zip", "city"}, {"zip", "city", "state"}} }

\* the key column holds the row number, or the value of row 0 twice
WithKey(t, dup) ==
    DataFrame(t.columns \cup {KeyCol}, t.index,
              [i \in t.index |->
                 [c \in t.columns \cup {KeyCol} |->
                    IF c # KeyCol THEN t.at[i][c]
                    ELSE IF dup /\ i = 1 THEN 0 ELSE i]],
              t.len)

DriverInit ==
    /\ \E t \in DriverTables, dup \in BOOLEAN,
          len \in {MaxRows, n_samples * 10 - 1, n_samples * 10} :
         data = [WithKey(t, dup) EXCEPT !.len = len]
    /\ pc = "start"
    /\ n_stable_checked = 0
    /\ df_samp = {}
    /\ norminfos = <<>>
    /\ result = "none"
    /\ _coldeps = {} /\ _single_dep = TRUE
    /\ df = NoTable /\ ret = NoCall
    /\ TreeIdle
    /\ ColSpecIdle /\ PrimIdle /\ ExtractIdle /\ IpcIdle

data_norm == Drop(data, {KeyCol})

\* get_norminfos_for_es has raised f
Raised(f) ==
    /\ \E e \in load_from_csv_end(data, KeyCol, f) :
          pc' = e.pc /\ result' = e.result
    /\ UNCHANGED norminfos

\* coldeps is returned: lines 14-19, then the rest of load_from_csv; the
\* list get_norminfos returns is the one it was created with, nothing in
\* ColDepTree appending to it
Normalize(cds) ==
    \E T \in tree_pipeline(cds) :
        /\ tree' = T
        /\ IF Ok(T)
           THEN /\ norminfos' = <<>>
                /\ \E e \in load_from_csv_end(data, KeyCol, "none") :
                      pc' = e.pc /\ result' = e.result
           ELSE Raised(T.err)

\* lines 50-52 up to the first sample, or to the end for a table below the
\* sampling threshold
LoadFromCsv ==
    /\ pc = "start"
    /\ IF data_norm.len < n_samples * 10
       THEN \E r \in {analyze({}, TRUE, data_norm)} :
                /\ _coldeps' = r.cds
                /\ IF r.err # "none"
                   THEN Raised(r.err) /\ UNCHANGED tree
                   ELSE Normalize(r.cds)
       ELSE /\ pc' = "sampling"
            /\ UNCHANGED <<_coldeps, result, tree, norminfos>>
    /\ n_stable_checked' = 0
    /\ UNCHANGED <<df_samp, data, coldeps, phase, removed, df, _single_dep, ret, mkfeatVars>>

\* one turn of the while loop: df.sample draws n_samples rows, idx being
\* the labels of those that differ
SampleRound(idx) ==
    /\ pc = "sampling"
    /\ df_samp' = idx
    /\ \E r \in {analyze(_coldeps, TRUE, Rows(data_norm, idx, n_samples))} :
           /\ _coldeps' = r.cds
           /\ IF r.err # "none"
              THEN Raised(r.err) /\ UNCHANGED <<n_stable_checked, tree>>
              ELSE IF r.ret
                   THEN /\ n_stable_checked' = n_stable_checked + 1
                        /\ IF n_stable_checked + 1 > 3
                           THEN Normalize(r.cds)
                           ELSE UNCHANGED <<pc, result, tree, norminfos>>
                   ELSE /\ n_stable_checked' = 0
                        /\ UNCHANGED <<pc, result, tree, norminfos>>
    /\ UNCHANGED <<data, coldeps, phase, removed, df, _single_dep, ret, mkfeatVars>>

SampleStep == \E idx \in (SUBSET data_norm.index) \ {{}} : SampleRound(idx)

DriverNext ==
    \/ LoadFromCsv
    \/ SampleStep

\* the interpreter keeps running the loop once it is entered
DriverSpec == DriverInit /\ [][DriverNext]_vars /\ WF_vars(SampleStep)

Ended == pc \in {"returned", "raised"}

\* C6: the resampling loop ends after a bounded number of rounds whatever
\* the samples drawn: a call that has entered the loop comes to an end
C6_SamplingLoopTerminates == (pc = "sampling") ~> Ended

\* two rows hold the same key and differ in another column
DuplicateKey ==
    \E i, j \in data.index :
        /\ data.at[i][KeyCol] = data.at[j][KeyCol]
        /\ data.at[i] # data.at[j]

\* C8: with a duplicate key, load_from_csv ends by returning the
\* malformed-key error, never by returning success or raising
C8_DuplicateKeyReported ==
    (DuplicateKey /\ Ended) => (pc = "returned" /\ result = "ERR_COLUMN_BAD")

\* C9: for the table [id, zip, city, state] with a unique key id and zip
\* determining city and state, load_from_csv ends with the main table and
\* the one group keyed by zip that holds city and state under it
C9_SimpleChain ==
    ( /\ data.columns = {KeyCol, "zip", "city", "state"}
      /\ IndexUnique(data, KeyCol)
      /\ Determines(data, {"zip"}, {"city", "state"})
      /\ Ended )
    => /\ pc = "returned" /\ result = "OK"
       /\ norminfos = << [cnset |-> {"city", "state"}, idx_parent |-> 0,
                          cnset_key |-> {"zip"}] >>

\* no column of the table analysed is determined by other columns
NoDependency ==
    \A c \in data_norm.columns :
        \A lhs \in (SUBSET (data_norm.columns \ {c})) \ {{}} :
            ~Determines(data_norm, lhs, {c})

\* C10: for a table without any dependency the call ends normally with an
\* empty list of groups, the main table being the only one
C10_NoDependencies ==
    (NoDependency /\ IndexUnique(data, KeyCol) /\ Ended)
    => (pc = "returned" /\ result = "OK" /\ norminfos = <<>>)

(***************************************************************************)
(* ColumnSpec.validate (columnspec.py 23-49).  A column entry is a dict:   *)
(* name and type tell whether the keys 'name' and 'type' are in it, key    *)
(* and label are "absent" or the truth value stored under the key.         *)
(***************************************************************************)
MaxColumns == 2     \* most entries of a column list

Flag == {"absent", "False", "True"}
ColInfo == [name : BOOLEAN, type : BOOLEAN, key : Flag, label : Flag]
ColumnLists == UNION { [1..n -> ColInfo] : n \in 0..MaxColumns }

\* the evaluation of Error.<member>: a member error.py does not define
\* raises AttributeError
ErrorMember(member) ==
    IF member \in Error THEN [raised |-> FALSE, val |-> member]
    ELSE [raised |-> TRUE, val |-> "AttributeError"]

\* the loop of validate from entry i on, then lines 47-49
RECURSIVE validate_from(_, _, _, _)
validate_from(cols, i, has_key, has_label) ==
    IF i > Len(cols)
    THEN IF ~has_key THEN ErrorMember("ERR_COLUMN_NO_KEY") ELSE ErrorMember("OK")
    ELSE LET colinfo == cols[i]
         IN  IF ~colinfo.name \/ ~colinfo.type
             THEN ErrorMember("ERR_COLUMN_HAS_NO_NAME_OR_TYPE")
             ELSE IF colinfo.key = "True" /\ has_key
             THEN ErrorMember("ERR_COLUMN_MULTI_KEY")
             ELSE IF colinfo.key = "True" /\ colinfo.label = "True"
             THEN ErrorMember("ERR_COLUMN_KEY_AND_LABEL")
             ELSE IF colinfo.label = "True" /\ has_label
             THEN ErrorMember("ERR_COLUMN_MULTI_LABEL")
             ELSE validate_from(cols, i + 1, has_key \/ colinfo.key = "True",
                                has_label \/ colinfo.label = "True")

colspec_validate(cols) == validate_from(cols, 1, FALSE, FALSE)

ColSpecInit ==
    /\ _columns \in ColumnLists
    /\ err = None
    /\ PrimIdle /\ ExtractIdle
    /\ TreeIdle /\ DepIdle /\ DriverIdle /\ IpcIdle

\* ColumnSpec(columns).validate()
Validate ==
    /\ err = None
    /\ err' = Some(colspec_validate(_columns))
    /\ UNCHANGED <<_columns, primVars, extractVars, treeVars, depVars, driverVars, ipcVars>>

ColSpecNext == Validate

ColSpecSpec == ColSpecInit /\ [][ColSpecNext]_vars

\* every entry has 'name' and 'type', one entry is flagged key, at most one
\* is flagged label, and the key entry is not flagged label
WellFormed(cols) ==
    /\ \A i \in 1..Len(cols) : cols[i].name /\ cols[i].type
    /\ Cardinality({ i \in 1..Len(cols) : cols[i].key = "True" }) = 1
    /\ Cardinality({ i \in 1..Len(cols) : cols[i].label = "True" }) <= 1
    /\ \A i \in 1..Len(cols) : ~(cols[i].key = "True" /\ cols[i].label = "True")

\* C16: validate returns OK exactly for the well-formed column lists, and
\* for every other list it returns a member of Error other than OK
C16_ValidateOkIffWellFormed ==
    (err # None) =>
        LET r == err[1]
        IN  /\ ~r.raised
            /\ r.val \in Error
            /\ (r.val = "OK") <=> WellFormed(_columns)

(***************************************************************************)
(* MaxConsecutiveTrue (aggregation_primitives.py 1385-1416).  The values   *)
(* of the input are "True", "False" and "None".                            *)
(***************************************************************************)
MaxArrayLen == 4    \* longest input of max_consecutive_true

BoolVal == {"True", "False", "None"}
Arrays == UNION { [1..n -> BoolVal] : n \in 0..MaxArrayLen }

\* the loop of max_consecutive_true from element i on
RECURSIVE max_consecutive_true_from(_, _, _, _, _)
max_consecutive_true_from(self_skipna, arr, i, maxc, count) ==
    IF i > Len(arr) THEN maxc
    ELSE LET val == arr[i]
         IN  IF self_skipna /\ val = "None"
             THEN max_consecutive_true_from(self_skipna, arr, i + 1, maxc, count)
             ELSE IF ~self_skipna /\ val = "None"
             THEN max_consecutive_true_from(self_skipna, arr, i + 1, maxc, 0)
             ELSE IF val = "True"
             THEN max_consecutive_true_from(self_skipna, arr, i + 1, maxc, count + 1)
             ELSE max_consecutive_true_from(self_skipna, arr, i + 1,
                                            IF count > maxc THEN count ELSE maxc, 0)

max_consecutive_true(self_skipna, arr) ==
    max_consecutive_true_from(self_skipna, arr, 1, 0, 0)

PrimInit ==
    /\ array \in Arrays
    /\ skipna \in BOOLEAN
    /\ max_count = None
    /\ ColSpecIdle /\ ExtractIdle
    /\ TreeIdle /\ DepIdle /\ DriverIdle /\ IpcIdle

\* MaxConsecutiveTrue(skipna)(array)
MaxConsecutiveTrue ==
    /\ max_count = None
    /\ max_count' = Some(max_consecutive_true(skipna, array))
    /\ UNCHANGED <<array, skipna, colspecVars, extractVars, treeVars, depVars, driverVars, ipcVars>>

PrimNext == MaxConsecutiveTrue

PrimSpec == PrimInit /\ [][PrimNext]_vars

\* the input without its None values
RECURSIVE DropNone(_)
DropNone(arr) ==
    IF arr = <<>> THEN <<>>
    ELSE IF Head(arr) = "None" THEN DropNone(Tail(arr))
    ELSE <<Head(arr)>> \o DropNone(Tail(arr))

\* the length of the longest run of consecutive "True" in arr
LongestRun(arr) ==
    LET R == { n \in 0..Len(arr) :
                 \E i \in 1..(Len(arr) - n + 1) : \A k \in i..(i + n - 1) : arr[k] = "True" }
    IN  CHOOSE n \in R : \A m \in R : m <= n

\* C17: with None values skipped, the value returned is the length of the
\* longest run of consecutive True of the input, a run that ends the input
\* included
C17_LongestRunOfTrue ==
    (max_count # None /\ skipna) => max_count[1] = LongestRun(DropNone(array))

(***************************************************************************)
(* FeatureExtractor (feat_extractor.py) with QufaCsv.load (qufa_csv.py).   *)
(* extract_features is taken statement by statement, so that a caller      *)
(* polling get_feature_info sees every state the object goes through.      *)
(* load_from_csv after the CSV is read, ft.dfs, select_features and        *)
(* es.get_df_skip are taken by their outcome only: each returns or raises. *)
(***************************************************************************)
chunk_size == 10000

\* the numbers of data rows of the CSV files read; the file has one header
\* line more
FileRows == {5, 15000, 25000}

\* the progress_percent values dfs hands to its callback, never decreasing
\* within one call
DfsPercent == {0, 50, 100}

ExtractPhase == {"READ_CSV", "DFS"}

\* the column lists given to the constructor: one well-formed, one without key
ExtractColumns ==
    { << [name |-> TRUE, type |-> TRUE, key |-> "True", label |-> "absent"],
         [name |-> TRUE, type |-> TRUE, key |-> "absent", label |-> "True"] >>,
      << [name |-> TRUE, type |-> TRUE, key |-> "absent", label |-> "absent"] >> }

\* the value _progress_report computes from prog = num / den: int() of the
\* scaled value, then the cap below 100
progress_value(num, den, ph) ==
    LET prog == IF ph = "READ_CSV"
                THEN num \div (den * 10)
                ELSE (100 * den + 9 * num) \div (10 * den)
    IN  IF prog >= 100 THEN 99 ELSE prog

\* _progress_report: the handler is called, then _prog is set
_progress_report(num, den, ph) ==
    LET prog == progress_value(num, den, ph)
    IN  /\ handled' = Append(handled, prog)
        /\ _prog' = Some(prog)

get_feature_info ==
    IF _prog = None THEN "ERR_GENERAL"
    ELSE IF feature_matrix = None THEN "ERR_ONGOING"
    ELSE IF feature_helper = None THEN "AttributeError"
    ELSE "array"

ExtractInit ==
    /\ run = "idle"
    /\ _columns \in ExtractColumns
    /\ err = None
    /\ n_total_rows = 0 /\ n_rows = 0
    /\ _prog = None /\ feature_matrix = None /\ feature_helper = None
    /\ handled = <<>> /\ progress_percent = None /\ info = NoInfo
    /\ PrimIdle
    /\ TreeIdle /\ DepIdle /\ DriverIdle /\ IpcIdle

\* extract_features up to the first chunk: _load with its early returns,
\* then QufaCsv.load up to line 37
Load(isfile, mismatch, rows) ==
    /\ run = "idle"
    /\ LET r == colspec_validate(_columns)
       IN  IF ~isfile \/ r.raised \/ r.val # "OK" \/ mismatch
           THEN /\ run' = "failed"
                /\ UNCHANGED <<n_total_rows, n_rows>>
           ELSE /\ run' = "read_csv"
                /\ n_total_rows' = rows + 1
                /\ n_rows' = 0
    /\ UNCHANGED <<_prog, feature_matrix, feature_helper, handled, progress_percent,
                   info, colspecVars, primVars, treeVars, depVars, driverVars, ipcVars>>

\* one turn of the loop over the chunks read_csv yields
CsvChunk ==
    /\ run = "read_csv"
    /\ n_rows < n_total_rows - 1
    /\ n_rows' = n_rows + chunk_size
    /\ _progress_report((n_rows + chunk_size) * 100, n_total_rows, "READ_CSV")
    /\ UNCHANGED <<run, n_total_rows, feature_matrix, feature_helper, progress_percent,
                   info, colspecVars, primVars, treeVars, depVars, driverVars, ipcVars>>

\* read_csv raises ValueError on a chunk: Error.ERR_COLUMN_TYPE is evaluated
CsvValueError ==
    /\ run = "read_csv"
    /\ n_rows < n_total_rows - 1
    /\ run' = "failed"
    /\ UNCHANGED <<n_total_rows, n_rows, _prog, feature_matrix, feature_helper, handled,
                   progress_percent, info, colspecVars, primVars, treeVars, depVars,
                   driverVars, ipcVars>>

\* the chunks are read: the rest of load_from_csv returns OK or raises
LoadEnd(ok) ==
    /\ run = "read_csv"
    /\ n_rows >= n_total_rows - 1
    /\ run' = IF ok THEN "dfs" ELSE "failed"
    /\ UNCHANGED <<n_total_rows, n_rows, _prog, feature_matrix, feature_helper, handled,
                   progress_percent, info, colspecVars, primVars, treeVars, depVars,
                   driverVars, ipcVars>>

\* dfs calls _progress_report_dfs
DfsCallback(p) ==
    /\ run = "dfs"
    /\ IF progress_percent = None THEN TRUE ELSE p > progress_percent[1]
    /\ progress_percent' = Some(p)
    /\ _progress_report(p, 1, "DFS")
    /\ UNCHANGED <<run, n_total_rows, n_rows, feature_matrix, feature_helper,
                   info, colspecVars, primVars, treeVars, depVars, driverVars, ipcVars>>

\* dfs returns or raises
DfsEnd(ok) ==
    /\ run = "dfs"
    /\ run' = IF ok THEN "select" ELSE "failed"
    /\ UNCHANGED <<n_total_rows, n_rows, _prog, feature_matrix, feature_helper, handled,
                   progress_percent, info, colspecVars, primVars, treeVars, depVars,
                   driverVars, ipcVars>>

\* line 97: select_features returns and feature_matrix is set, or it raises
SelectFeatures(ok) ==
    /\ run = "select"
    /\ IF ok
       THEN run' = "helper" /\ feature_matrix' = Some("matrix")
       ELSE run' = "failed" /\ UNCHANGED feature_matrix
    /\ UNCHANGED <<n_total_rows, n_rows, _prog, feature_helper, handled,
                   progress_percent, info, colspecVars, primVars, treeVars, depVars,
                   driverVars, ipcVars>>

\* lines 101-104: feature_helper is set, then es.get_df_skip() returns or
\* raises
SetHelper(ok) ==
    /\ run = "helper"
    /\ feature_helper' = Some("helper")
    /\ run' = IF ok THEN "finish" ELSE "failed"
    /\ UNCHANGED <<n_total_rows, n_rows, _prog, feature_matrix, handled,
                   progress_percent, info, colspecVars, primVars, treeVars, depVars,
                   driverVars, ipcVars>>

\* lines 106-110
Finish ==
    /\ run = "finish"
    /\ handled' = Append(handled, 100)
    /\ _prog' = Some(100)
    /\ run' = "done"
    /\ UNCHANGED <<n_total_rows, n_rows, feature_matrix, feature_helper,
                   progress_percent, info, colspecVars, primVars, treeVars, depVars,
                   driverVars, ipcVars>>

\* a caller asks for the feature information, once, at any time
GetFeatureInfo ==
    /\ info = NoInfo
    /\ info' = [at |-> run, val |-> get_feature_info]
    /\ UNCHANGED <<run, n_total_rows, n_rows, _prog, feature_matrix, feature_helper,
                   handled, progress_percent, colspecVars, primVars, treeVars, depVars,
                   driverVars, ipcVars>>

ExtractNext ==
    \/ \E isfile \in BOOLEAN, mismatch \in BOOLEAN, rows \in FileRows :
         Load(isfile, mismatch, rows)
    \/ CsvChunk
    \/ CsvValueError
    \/ \E ok \in BOOLEAN : LoadEnd(ok)
    \/ \E p \in DfsPercent : DfsCallback(p)
    \/ \E ok \in BOOLEAN : DfsEnd(ok)
    \/ \E ok \in BOOLEAN : SelectFeatures(ok)
    \/ \E ok \in BOOLEAN : SetHelper(ok)
    \/ Finish
    \/ GetFeatureInfo

ExtractSpec == ExtractInit /\ [][ExtractNext]_vars

InProgress == {"read_csv", "dfs", "select", "helper", "finish"}

\* C15: get_feature_info gives ERR_GENERAL when no extraction was started,
\* ERR_ONGOING exactly when called while extract_features runs, and the
\* feature array only after extract_features has returned OK
C15_FeatureInfoTellsRunState ==
    (info # NoInfo) =>
        /\ (info.at = "idle") => (info.val = "ERR_GENERAL")
        /\ (info.val = "ERR_ONGOING") <=> (info.at \in InProgress)
        /\ (info.val = "array") => (info.at = "done")


(***************************************************************************)
(* IPC (mkfeat/ipc.py): the progress file.  One process writes (create,    *)
(* set_prog, set_complete), the processes of Readers call get_prog.  A     *)
(* call is cut where it touches the file: _write_prog at open(path, "w"),  *)
(* which creates or empties the file, and at close, where the buffered     *)
(* text reaches it; get_prog at open and read, and at os.remove.  A file   *)
(* removed while the writer holds it open is written to no more under its  *)
(* path.  The text of the file is a sequence of decimal digits.            *)
(***************************************************************************)
MaxWrites == 3      \* most writes begun
MaxCalls == 3       \* most get_prog calls begun

\* the values set_prog is called with, in tenths: 99.5 is 995
ProgInputs == {0, 500, 995, 1000, 1005}

\* str(prog) for prog >= 0
RECURSIVE str(_)
str(prog) == IF prog < 10 THEN <<prog>> ELSE Append(str(prog \div 10), prog % 10)

\* int(text): the number, ValueError being raised for the empty text
RECURSIVE int_from(_, _, _)
int_from(text, i, acc) ==
    IF i > Len(text) THEN acc ELSE int_from(text, i + 1, acc * 10 + text[i])

int(text) ==
    [err |-> IF text = <<>> THEN "ValueError" ELSE "none", val |-> int_from(text, 1, 0)]

\* set_prog up to the write: the number handed to _write_prog
set_prog(prog) ==
    LET as_int == prog \div 10
    IN  IF as_int >= 100 THEN 99 ELSE as_int

IpcInit ==
    /\ IpcIdle
    /\ ColSpecIdle /\ PrimIdle /\ ExtractIdle
    /\ TreeIdle /\ DepIdle /\ DriverIdle

\* _write_prog up to open(self.path, "w"), called by create, set_prog or
\* set_complete
WriteOpen(op, prog) ==
    /\ writer = None /\ n_writes < MaxWrites
    /\ (op # "set_prog") => prog = 0
    /\ file' = Some(<<>>)
    /\ writer' = Some([op |-> op, linked |-> TRUE,
                       text |-> IF op = "create" THEN str(0)
                                ELSE IF op = "set_prog" THEN str(set_prog(prog))
                                ELSE str(100)])
    /\ observed' = FALSE
    /\ n_writes' = n_writes + 1
    /\ n_complete' = IF op = "set_complete" THEN n_complete + 1 ELSE n_complete
    /\ UNCHANGED <<reader, last_write, n_seen, n_calls>>
    /\ UNCHANGED <<colspecVars, primVars, extractVars, treeVars, depVars, driverVars>>

\* f.write and f.close
WriteClose ==
    /\ writer # None
    /\ IF writer[1].linked
       THEN file' = Some(writer[1].text) /\ last_write' = writer[1].op
       ELSE UNCHANGED <<file, last_write>>
    /\ writer' = None
    /\ UNCHANGED <<reader, observed, n_complete, n_seen, n_writes, n_calls>>
    /\ UNCHANGED <<colspecVars, primVars, extractVars, treeVars, depVars, driverVars>>

\* get_prog up to f.read(), or to its end when there is no file
GetProgRead(r) ==
    /\ reader[r].at = "idle" /\ n_calls < MaxCalls
    /\ reader' = [reader EXCEPT ![r] =
                    IF file = None
                    THEN [at |-> "idle", prog |-> <<>>, src |-> "none",
                          got |-> Some(-1), raised |-> "none"]
                    ELSE [at |-> "read", prog |-> file[1], src |-> last_write,
                          got |-> None, raised |-> "none"]]
    /\ n_calls' = n_calls + 1
    /\ UNCHANGED <<file, writer, last_write, observed, n_complete, n_seen, n_writes>>
    /\ UNCHANGED <<colspecVars, primVars, extractVars, treeVars, depVars, driverVars>>

\* the rest of get_prog: int(prog), os.remove when it is 100, return
GetProgReturn(r) ==
    /\ reader[r].at = "read"
    /\ LET prog == int(reader[r].prog)
           removes == prog.err = "none" /\ prog.val = 100 /\ file # None
           got == IF prog.err # "none" THEN None
                  ELSE IF prog.val = 100 /\ file = None THEN Some(-1)
                  ELSE Some(prog.val)
       IN  /\ reader' = [reader EXCEPT ![r].at = "idle", ![r].got = got,
                                        ![r].raised = prog.err]
           /\ IF removes
              THEN /\ file' = None
                   /\ writer' = IF writer = None THEN None
                                ELSE Some([writer[1] EXCEPT !.linked = FALSE])
                   /\ observed' = TRUE
                   /\ n_seen' = n_seen + 1
              ELSE UNCHANGED <<file, writer, observed, n_seen>>
    /\ UNCHANGED <<last_write, n_complete, n_writes, n_calls>>
    /\ UNCHANGED <<colspecVars, primVars, extractVars, treeVars, depVars, driverVars>>

IpcNext ==
    \/ \E op \in {"create", "set_prog", "set_complete"}, prog \in ProgInputs :
         WriteOpen(op, prog)
    \/ WriteClose
    \/ \E r \in Readers : GetProgRead(r)
    \/ \E r \in Readers : GetProgReturn(r)

IpcSpec == IpcInit /\ [][IpcNext]_vars

\* C29: a get_prog call returns 100 only when the text it read was written
\* by set_complete; a get_prog call begun after a get_prog has returned 100,
\* no write having begun since, returns -1; and 100 is returned at most once
\* for each set_complete call
C29_CompletionSeenOnce ==
    /\ [](/\ \A r \in Readers : (reader[r].got = Some(100)) => reader[r].src = "set_complete"
          /\ n_seen <= n_complete)
    /\ [][ \A r \in Readers :
             (observed /\ reader[r].at = "idle" /\ reader'[r] # reader[r])
             => reader'[r].at = "idle" /\ reader'[r].got = Some(-1) ]_vars

====
